---- MODULE Spec2Model ----
(***************************************************************************)
(* The impression-tracker survey of src/app.py as a state machine.         *)
(*                                                                         *)
(* The program is a Streamlit script: every user interaction runs the      *)
(* widget's callback (if any) and then the whole script top to bottom      *)
(* against the persistent st.session_state.  One action of the model is    *)
(* one such interaction: callback plus script run.  Scores are the         *)
(* slider's floats in tenths (step 0.1, app.py:93), so 50.0 is 500.        *)
(***************************************************************************)
EXTENDS Integers, Sequences, FiniteSets, TLC

VARIABLES
    NEWSAPI_KEY,    \* os.getenv("NEWSAPI_KEY") is set (app.py:18)
    session_state,  \* st.session_state: the named keys, a key is absent until set
    sliders,        \* st.session_state["slider_<i>"], keyed by i
    cache,          \* the st.cache_data entry of fetch_live_exposures
    live,           \* begin_callback's local `live` at its last successful fetch
    fetch_calls,    \* outbound requests.get calls made by the last begin_callback
    store,          \* the supabase table: the batches inserted, in order
    page,           \* what the last script run rendered
    score,          \* the final page's (level, label)
    payload,        \* the final page's payload
    save_status     \* the final page's report of the insert

vars == <<NEWSAPI_KEY, session_state, sliders, cache, live, fetch_calls,
          store, page, score, payload, save_status>>

----------------------------------------------------------------------------
(* Bounds of the model. *)

\* app.py:16 sets NUM_EXPOSURES = 10; the model scales the target sample size
\* down so that sessions of every length up to it are explored.
NUM_EXPOSURES == 2
\* The longest article list the provider answers with.
MaxArticles == 5
\* The number of batches the store holds before the model stops inserting.
MaxInserts == 2
\* The longest response sequence handed to compute_level on its own.
MaxLevelLen == 2
\* The longest exposure and response lists handed to the payload build on
\* its own.
MaxPayloadLen == 2

----------------------------------------------------------------------------
(* Values. *)

None == 0 - 1

\* The slider positions the user picks from (tenths of a point, 0.0 to 100.0;
\* whole points here, floats the program's arithmetic is exact on).
Ratings == {500, 550, 800}

\* uuid.uuid4() draws one of these.
UUIDs == {1, 2}

NoScore == <<0, "">>

Min(a, b) == IF a <= b THEN a ELSE b

Abs(x) == IF x < 0 THEN 0 - x ELSE x

RECURSIVE sum(_)
sum(s) == IF s = <<>> THEN 0 ELSE Head(s) + sum(Tail(s))

Last(s) == s[Len(s)]

----------------------------------------------------------------------------
(* The exposure provider: NewsAPI's answer to the request of app.py:34. *)

\* The articles the provider knows, newest first.  Articles 2 and 4 are
\* not usable: one has no title, the other neither description nor content.
\* Article 3 has no description and falls back to its content.
PoolTitle       == <<"t1", "",   "t3", "t4", "t5", "t6", "t7", "t8">>
PoolDescription == <<"d1", "d2", "",   "",   "d5", "d6", "d7", "d8">>
PoolContent     == <<"",   "c2", "c3", "",   "c5", "",   "c7", "">>

Article(k) == [title       |-> PoolTitle[k],
               description |-> PoolDescription[k],
               content     |-> PoolContent[k]]

\* What requests.get returns: a failure (the call raises, or the status makes
\* raise_for_status raise), or a JSON body with the first n articles.
HttpResponses ==
    {[ok |-> FALSE, articles |-> <<>>]}
    \cup {[ok |-> TRUE, articles |-> [k \in 1..n |-> Article(k)]] : n \in 0..MaxArticles}

\* app.py:37-43: the articles with a title and a description or content.
RECURSIVE usable_exposures(_)
usable_exposures(articles) ==
    IF articles = <<>> THEN <<>>
    ELSE LET art   == Head(articles)
             title == art.title
             desc  == IF art.description # "" THEN art.description
                      ELSE IF art.content # "" THEN art.content
                      ELSE ""
             rest  == usable_exposures(Tail(articles))
         IN  IF title # "" /\ desc # ""
             THEN <<[headline |-> title, summary |-> desc]>> \o rest
             ELSE rest

NoCache == [valid |-> FALSE, value |-> <<>>]

\* A fetch_live_exposures without the cache decorator: every call makes a
\* request.
fetch_live_exposures_uncached(c, r) ==
    IF ~r.ok
    THEN [raised |-> TRUE, value |-> <<>>, calls |-> 1, cache |-> c]
    ELSE LET exps == usable_exposures(r.articles)
         IN  [raised |-> FALSE, value |-> exps, calls |-> 1,
              cache |-> [valid |-> TRUE, value |-> exps]]

\* app.py:23-43 under @st.cache_data(ttl=3600): a fresh entry is returned
\* without a request; otherwise one request is made and its result stored
\* (an exception is not stored).
fetch_live_exposures(c, r) ==
    IF c.valid
    THEN [raised |-> FALSE, value |-> c.value, calls |-> 0, cache |-> c]
    ELSE IF ~r.ok
    THEN [raised |-> TRUE, value |-> <<>>, calls |-> 1, cache |-> c]
    ELSE LET exps == usable_exposures(r.articles)
         IN  [raised |-> FALSE, value |-> exps, calls |-> 1,
              cache |-> [valid |-> TRUE, value |-> exps]]

----------------------------------------------------------------------------
(* The callbacks. *)

\* A sample_size that forgets the target: every fetched item is shown.
sample_size_all(lv) == Len(lv)

\* app.py:63: the size of the sample.
sample_size(lv) == Min(Len(lv), NUM_EXPOSURES)

\* app.py:63: random.sample(live, k) picks k distinct positions of live, in
\* any order.
random_sample(lv, k) ==
    LET picks == {p \in [1..k -> 1..Len(lv)] :
                     \A a, b \in 1..k : a # b => p[a] # p[b]}
    IN  {[j \in 1..k |-> lv[p[j]]] : p \in picks}

\* A begin_callback that sends an empty sample straight to phase done.
begin_callback_empty_done(s, fetched, sampled) ==
    LET s1 == [s EXCEPT !.start_score = s.start_slider]
    IN  IF fetched.raised THEN s1
        ELSE [s1 EXCEPT !.exposures = sampled,
                        !.idx       = 0,
                        !.responses = <<>>,
                        !.phase     = IF sampled = <<>> THEN "done" ELSE "survey"]

\* app.py:59-67.  `fetched` is what fetch_live_exposures did; when it raised
\* the callback ends at line 61.
begin_callback(s, fetched, sampled) ==
    LET s1 == [s EXCEPT !.start_score = s.start_slider]
    IN  IF fetched.raised THEN s1
        ELSE [s1 EXCEPT !.exposures = sampled,
                        !.idx       = 0,
                        !.responses = <<>>,
                        !.phase     = "survey"]

\* A next_callback that appends the rating and forgets to advance idx.
next_callback_no_advance(s, sl) ==
    LET i  == s.idx
        s1 == [s EXCEPT !.responses = Append(@, sl[i])]
    IN  IF s1.idx >= Len(s1.exposures)
        THEN [s1 EXCEPT !.phase = "done"]
        ELSE s1

\* A next_callback that ends the survey one story late (> for >=).
next_callback_late(s, sl) ==
    LET i  == s.idx
        s1 == [s EXCEPT !.responses = Append(@, sl[i]), !.idx = @ + 1]
    IN  IF s1.idx > Len(s1.exposures)
        THEN [s1 EXCEPT !.phase = "done"]
        ELSE s1

\* app.py:69-75.
next_callback(s, sl) ==
    LET i  == s.idx
        s1 == [s EXCEPT !.responses = Append(@, sl[i]), !.idx = @ + 1]
    IN  IF s1.idx >= Len(s1.exposures)
        THEN [s1 EXCEPT !.phase = "done"]
        ELSE s1

----------------------------------------------------------------------------
(* The score. *)

\* app.py:79-80: the mean as the fraction <<sum of deltas, count>>.
avg_delta(start, responses) ==
    LET deltas == [i \in 1..Len(responses) |-> Abs(responses[i] - start)]
    IN  IF deltas # <<>> THEN <<sum(deltas), Len(deltas)>> ELSE <<0, 1>>

\* avg > t for the fraction avg and t in tenths.
Gt(avg, t) == avg[1] > t * avg[2]

\* A compute_level whose first threshold is inclusive (>= 20 for > 20).
compute_level_inclusive(start, responses) ==
    LET avg == avg_delta(start, responses)
    IN  IF avg[1] >= 200 * avg[2] THEN <<1, "Flip-Flopper">>
        ELSE IF Gt(avg, 100) THEN <<2, "Malleable Mind">>
        ELSE IF Gt(avg, 50) THEN <<3, "Moderately Moved">>
        ELSE IF Gt(avg, 20) THEN <<4, "Steady Supporter">>
        ELSE IF start >= 800 THEN <<5, "Buttigieg Stan">>
        ELSE <<4, "Steady Supporter">>

\* A compute_level whose labels sit one threshold too low: level 3 from 2,
\* level 4 never by threshold.
compute_level_shifted(start, responses) ==
    LET avg == avg_delta(start, responses)
    IN  IF Gt(avg, 200) THEN <<1, "Flip-Flopper">>
        ELSE IF Gt(avg, 100) THEN <<2, "Malleable Mind">>
        ELSE IF Gt(avg, 20) THEN <<3, "Moderately Moved">>
        ELSE IF start >= 800 THEN <<5, "Buttigieg Stan">>
        ELSE <<4, "Steady Supporter">>

\* app.py:78-85.
compute_level(start, responses) ==
    LET avg == avg_delta(start, responses)
    IN  IF Gt(avg, 200) THEN <<1, "Flip-Flopper">>
        ELSE IF Gt(avg, 100) THEN <<2, "Malleable Mind">>
        ELSE IF Gt(avg, 50) THEN <<3, "Moderately Moved">>
        ELSE IF Gt(avg, 20) THEN <<4, "Steady Supporter">>
        ELSE IF start >= 800 THEN <<5, "Buttigieg Stan">>
        ELSE <<4, "Steady Supporter">>

----------------------------------------------------------------------------
(* The script run. *)

\* app.py:47-54.
Defaults == [phase        |-> "init",
             start_slider |-> 500,
             start_score  |-> None,
             exposures    |-> <<>>,
             idx          |-> 0,
             responses    |-> <<>>]

\* A dispatch that shows the init page, Begin button included, in every
\* phase but survey.
dispatch_init_else(s) ==
    IF s.phase = "survey" THEN "survey" ELSE "init"

\* app.py:88, 99, 116: the page the script renders.
dispatch(s) ==
    IF s.phase = "init" THEN "init"
    ELSE IF s.phase = "survey" THEN "survey"
    ELSE "final"

\* app.py:100-108: the survey page raises (exposures[i] out of range, or no
\* value to start the slider from).
survey_raises(s, sl) ==
    \/ s.idx >= Len(s.exposures)
    \/ /\ s.idx \notin DOMAIN sl
       /\ IF s.idx = 0 THEN s.start_score = None ELSE s.responses = <<>>

\* A survey_sliders with a fixed default: every slider starts from the
\* starting score.
survey_sliders_fixed(s, sl) ==
    LET i == s.idx
    IN  IF i \in DOMAIN sl THEN sl
        ELSE (i :> s.start_score) @@ sl

\* app.py:106-108: slider_<i> starts from the starting score, then from the
\* last response, unless the key is already there.
survey_sliders(s, sl) ==
    LET i == s.idx
    IN  IF i \in DOMAIN sl THEN sl
        ELSE (i :> (IF i = 0 THEN s.start_score ELSE Last(s.responses))) @@ sl

\* app.py:127-134: the payload loop raises (resp[i] past the end of resp).
payload_raises(s) == Len(s.responses) < Len(s.exposures)

\* app.py:123, 134: the final page raises (resp[-1] and the division on an
\* empty list, the payload loop).
final_raises(s) ==
    \/ s.start_score = None
    \/ s.responses = <<>>
    \/ payload_raises(s)

\* A build_payload that pairs every exposure with the last rating given.
build_payload_last_rating(s) ==
    [k \in 1..Len(s.exposures) |->
        [user_id       |-> s.user_id,
         initial_score |-> s.start_score,
         snippet_i     |-> k - 1,
         headline      |-> s.exposures[k].headline,
         summary       |-> s.exposures[k].summary,
         rating        |-> s.responses[Len(s.responses)]]]

\* app.py:125-135: one row per exposure, snippet_i counting from 0.
build_payload(s) ==
    [k \in 1..Len(s.exposures) |->
        [user_id       |-> s.user_id,
         initial_score |-> s.start_score,
         snippet_i     |-> k - 1,
         headline      |-> s.exposures[k].headline,
         summary       |-> s.exposures[k].summary,
         rating        |-> s.responses[k]]]

\* A report that announces success whatever the insert did.
report_saved(outcome) == "saved"

\* app.py:141, 145, 147: what the page reports for the insert's outcome.
report(outcome) ==
    IF outcome = "raise" THEN "exception"
    ELSE IF outcome = "error" THEN "failed"
    ELSE "saved"

\* A script run that ends on page pg without reaching the final page's body.
Render(s, sl, pg) ==
    /\ session_state' = s
    /\ sliders' = sl
    /\ page' = pg
    /\ score' = NoScore
    /\ payload' = <<>>
    /\ save_status' = "none"
    /\ UNCHANGED store

\* app.py:116-156: the final page.  The insert succeeds, returns an error
\* payload or raises; only a success adds the rows to the table.
FinalPage(s, sl) ==
    IF final_raises(s) THEN Render(s, sl, "error")
    ELSE /\ Len(store) < MaxInserts
         /\ session_state' = s
         /\ sliders' = sl
         /\ page' = "final"
         /\ score' = compute_level(s.start_score, s.responses)
         /\ payload' = build_payload(s)
         /\ \E outcome \in {"ok", "error", "raise"} :
               /\ store' = IF outcome = "ok"
                           THEN Append(store, build_payload(s))
                           ELSE store
               /\ save_status' = report(outcome)

\* A user_id drawn afresh on every script run.
ensure_user_id_fresh(s, u) == ("user_id" :> u) @@ s

\* app.py:10-12: the session's user_id, drawn as u when there is none yet.
ensure_user_id(s, u) ==
    IF "user_id" \in DOMAIN s THEN s ELSE ("user_id" :> u) @@ s

\* app.py:10-156: the script, run against session state s and slider keys sl.
RunScript(s, sl) ==
    \E u \in UUIDs :
       LET s1 == ensure_user_id(s, u)
       IN  IF ~NEWSAPI_KEY THEN Render(s1, sl, "halted")
           ELSE LET s2 == s1 @@ Defaults
                    pg == dispatch(s2)
                IN  IF pg = "init" THEN Render(s2, sl, "init")
                    ELSE IF pg = "survey"
                    THEN IF survey_raises(s2, sl)
                         THEN Render(s2, sl, "error")
                         ELSE Render(s2, survey_sliders(s2, sl), "survey")
                    ELSE FinalPage(s2, sl)

----------------------------------------------------------------------------
(* The session. *)

\* app.py:23: the cache is shared by the server's sessions.  When this
\* session starts it is empty, or holds what an earlier session's begin
\* fetched.
WarmOrCold ==
    {NoCache} \cup {fetch_live_exposures(NoCache, r).cache :
                        r \in {h \in HttpResponses : h.ok}}

Init ==
    /\ NEWSAPI_KEY \in BOOLEAN
    /\ session_state = <<>>
    /\ sliders = <<>>
    /\ cache \in WarmOrCold
    /\ live = <<>>
    /\ fetch_calls = 0
    /\ store = <<>>
    /\ page = "none"
    /\ score = NoScore
    /\ payload = <<>>
    /\ save_status = "none"

\* The browser opens the app: the first script run.
Load ==
    /\ page = "none"
    /\ RunScript(session_state, sliders)
    /\ UNCHANGED <<NEWSAPI_KEY, cache, live, fetch_calls>>

\* The user asks for a rerun (the menu's Rerun, the R key).
Rerun ==
    /\ page # "none"
    /\ RunScript(session_state, sliders)
    /\ UNCHANGED <<NEWSAPI_KEY, cache, live, fetch_calls>>

\* app.py:91-95: the user moves the starting slider.
MoveStartSlider ==
    /\ page = "init"
    /\ \E v \in Ratings :
          RunScript([session_state EXCEPT !.start_slider = v], sliders)
    /\ UNCHANGED <<NEWSAPI_KEY, cache, live, fetch_calls>>

\* app.py:96: the user presses Begin.  A callback that raises ends the run
\* before the script body: the page shows the exception.
ClickBegin ==
    /\ page = "init"
    /\ \E r \in HttpResponses :
          LET fetched == fetch_live_exposures(cache, r)
          IN  /\ cache' = fetched.cache
              /\ fetch_calls' = fetched.calls
              /\ IF fetched.raised
                 THEN /\ Render(begin_callback(session_state, fetched, <<>>),
                                sliders, "error")
                      /\ UNCHANGED live
                 ELSE /\ live' = fetched.value
                      /\ \E sampled \in random_sample(fetched.value,
                                                      sample_size(fetched.value)) :
                            RunScript(begin_callback(session_state, fetched, sampled),
                                      sliders)
    /\ UNCHANGED NEWSAPI_KEY

\* app.py:109-112: the user moves the slider of the story on display.
MoveSlider ==
    /\ page = "survey"
    /\ \E v \in Ratings :
          RunScript(session_state, [sliders EXCEPT ![session_state.idx] = v])
    /\ UNCHANGED <<NEWSAPI_KEY, cache, live, fetch_calls>>

\* app.py:113: the user presses Next.
ClickNext ==
    /\ page = "survey"
    /\ RunScript(next_callback(session_state, sliders), sliders)
    /\ UNCHANGED <<NEWSAPI_KEY, cache, live, fetch_calls>>

\* app.py:151-156: the user presses the download button, which reruns the
\* script.
ClickDownload ==
    /\ page = "final"
    /\ RunScript(session_state, sliders)
    /\ UNCHANGED <<NEWSAPI_KEY, cache, live, fetch_calls>>

\* app.py:23: the cache entry is older than ttl.
CacheExpire ==
    /\ cache.valid
    /\ cache' = NoCache
    /\ UNCHANGED <<NEWSAPI_KEY, session_state, sliders, live, fetch_calls,
                   store, page, score, payload, save_status>>

Next ==
    \/ Load
    \/ Rerun
    \/ MoveStartSlider
    \/ ClickBegin
    \/ MoveSlider
    \/ ClickNext
    \/ ClickDownload
    \/ CacheExpire

Spec == Init /\ [][Next]_vars

----------------------------------------------------------------------------
(* compute_level on its own: the inputs are drawn, the function applied. *)

\* Starting scores and ratings on and around every threshold of the table.
\* All are multiples of 0.5, floats on which the program's subtraction, sum
\* and division are exact.
LevelScores == {0, 20, 25, 50, 55, 100, 105, 200, 205, 500, 550, 790, 800, 1000}

LevelInputs ==
    UNION {[1..n -> LevelScores] : n \in 0..MaxLevelLen}

InitLevel ==
    /\ NEWSAPI_KEY = TRUE
    /\ \E a \in LevelScores, rs \in LevelInputs :
          session_state = [start_score |-> a, responses |-> rs]
    /\ sliders = <<>>
    /\ cache = NoCache
    /\ live = <<>>
    /\ fetch_calls = 0
    /\ store = <<>>
    /\ page = "none"
    /\ score = NoScore
    /\ payload = <<>>
    /\ save_status = "none"

\* app.py:120: level, label = compute_level(start, resp).
ApplyComputeLevel ==
    /\ score = NoScore
    /\ score' = compute_level(session_state.start_score, session_state.responses)
    /\ UNCHANGED <<NEWSAPI_KEY, session_state, sliders, cache, live, fetch_calls,
                   store, page, payload, save_status>>

NextLevel == ApplyComputeLevel

SpecLevel == InitLevel /\ [][NextLevel]_vars

----------------------------------------------------------------------------
(* The payload build on its own: exposures and responses of any lengths. *)

PayloadExposures ==
    LET es == {usable_exposures(<<Article(1), Article(3)>>)[j] : j \in 1..2}
    IN  UNION {[1..n -> es] : n \in 0..MaxPayloadLen}

PayloadResponses ==
    UNION {[1..n -> Ratings] : n \in 0..MaxPayloadLen}

InitPayload ==
    /\ NEWSAPI_KEY = TRUE
    /\ \E u \in UUIDs, a \in Ratings, es \in PayloadExposures, rs \in PayloadResponses :
          session_state = [user_id |-> u, start_score |-> a,
                           exposures |-> es, responses |-> rs]
    /\ sliders = <<>>
    /\ cache = NoCache
    /\ live = <<>>
    /\ fetch_calls = 0
    /\ store = <<>>
    /\ page = "none"
    /\ score = NoScore
    /\ payload = <<>>
    /\ save_status = "none"

\* app.py:125-135: the payload is built, or the loop raises.
AssemblePayload ==
    /\ page = "none"
    /\ IF payload_raises(session_state)
       THEN page' = "error" /\ payload' = <<>>
       ELSE page' = "payload" /\ payload' = build_payload(session_state)
    /\ UNCHANGED <<NEWSAPI_KEY, session_state, sliders, cache, live, fetch_calls,
                   store, score, save_status>>

NextPayload == AssemblePayload

SpecPayload == InitPayload /\ [][NextPayload]_vars

----------------------------------------------------------------------------
(* Reading the session. *)

HasState == "phase" \in DOMAIN session_state

Phase == IF HasState THEN session_state.phase ELSE "unset"

Idx == IF HasState THEN session_state.idx ELSE 0

Responses == IF HasState THEN session_state.responses ELSE <<>>

Exposures == IF HasState THEN session_state.exposures ELSE <<>>

StartScore == IF HasState THEN session_state.start_score ELSE None

----------------------------------------------------------------------------
(* Claims. *)

\* C1: in every session state the number of collected responses equals the
\* index, and both are 0 while the phase is init.
ResponsesMatchIndex ==
    HasState =>
        /\ Len(session_state.responses) = session_state.idx
        /\ (Phase = "init" => session_state.idx = 0)

\* C1 witness: two ratings have been collected.
TwoResponsesCollected ==
    HasState /\ session_state.idx = 2 /\ Len(session_state.responses) = 2

\* C2: 0 <= idx <= len(exposures), and in the survey phase idx < len(exposures),
\* so exposures[idx] exists, whatever the provider returned.
IndexWithinExposures ==
    HasState =>
        /\ 0 <= session_state.idx
        /\ session_state.idx <= Len(session_state.exposures)
        /\ (Phase = "survey" => session_state.idx < Len(session_state.exposures))

\* C3: a begin whose fetch yields no usable exposure leaves the session in
\* phase done with no responses.
EmptyFetchResolvesToDone ==
    (Phase \in {"survey", "done"} /\ Exposures = <<>>) =>
        (Phase = "done" /\ Responses = <<>>)

\* C4: the session's rows are inserted into the store at most once.
InsertedAtMostOnce == Len(store) <= 1

\* A begin whose fetch raised: the init page gives way to the exception, the
\* phase is still init.
FailedBegin == page = "init" /\ page' = "error" /\ Phase' = "init"

\* C5: a begin whose fetch raises leaves phase, starting score, exposures,
\* idx and responses as they were.
FailedBeginLeavesSession ==
    [][FailedBegin =>
          /\ Phase' = Phase
          /\ StartScore' = StartScore
          /\ Exposures' = Exposures
          /\ Idx' = Idx
          /\ Responses' = Responses]_vars

PhaseOrder(p) ==
    IF p = "unset" THEN 0
    ELSE IF p = "init" THEN 1
    ELSE IF p = "survey" THEN 2
    ELSE 3

\* C6: the phase only advances init -> survey -> done: it never goes back, it
\* leaves init only by Begin on the init page, leaves survey only by Next on
\* the survey page, never leaves done, and responses are collected only in
\* the survey phase.
PhaseNeverRegresses ==
    [][/\ PhaseOrder(Phase') >= PhaseOrder(Phase)
       /\ (Phase = "init" /\ Phase' # "init" => page = "init" /\ Phase' = "survey")
       /\ (Phase = "survey" /\ Phase' # "survey" => page = "survey" /\ Phase' = "done")
       /\ (Phase = "done" => Phase' = "done")
       /\ (Phase' = "init" => Phase \in {"unset", "init"})
       /\ (Responses' # Responses /\ Phase # "init" => Phase = "survey")]_vars

\* C6 witness: the session went all the way to the final page.
ReachedFinalPage == Phase = "done" /\ page = "final"

\* A press of Next: the survey page is up and a response is appended.
NextPressed ==
    page = "survey" /\ Len(Responses') = Len(Responses) + 1

\* C7: Next on the last story moves the phase to done, Next on an earlier
\* story leaves it at survey; so with n >= 1 exposures the phase is done
\* exactly when n responses have been given.
LastNextFinishes ==
    /\ [][NextPressed =>
             IF Idx = Len(Exposures) - 1 THEN Phase' = "done"
             ELSE Idx < Len(Exposures) - 1 /\ Phase' = "survey"]_vars
    /\ [](Len(Exposures) >= 1 =>
             (Phase = "done" <=> Len(Responses) = Len(Exposures)))

\* C7 witness: a survey of more than one story has been completed.
LongSurveyDone ==
    Phase = "done" /\ Len(Exposures) >= 2 /\ Len(Responses) = Len(Exposures)

\* The threshold table of the score: average delta above the bound, level, label.
ThresholdTable ==
    << <<200, 1, "Flip-Flopper">>,
       <<100, 2, "Malleable Mind">>,
       <<50,  3, "Moderately Moved">>,
       <<20,  4, "Steady Supporter">> >>

RECURSIVE TotalDelta(_, _)
TotalDelta(start, rs) ==
    IF rs = <<>> THEN 0
    ELSE (IF Head(rs) >= start THEN Head(rs) - start ELSE start - Head(rs))
         + TotalDelta(start, Tail(rs))

\* The mean of the deltas is above t (the mean of no deltas is 0).
MeanAbove(start, rs, t) ==
    rs # <<>> /\ TotalDelta(start, rs) > t * Len(rs)

\* The first row of the table that matches, else level 5 or 4 by the start.
TableLevel(start, rs) ==
    LET hits == {k \in 1..Len(ThresholdTable) :
                    MeanAbove(start, rs, ThresholdTable[k][1])}
    IN  IF hits # {}
        THEN LET k == CHOOSE h \in hits : \A j \in hits : h <= j
             IN  <<ThresholdTable[k][2], ThresholdTable[k][3]>>
        ELSE IF start >= 800 THEN <<5, "Buttigieg Stan">>
        ELSE <<4, "Steady Supporter">>

FiftyFiveFifty ==
    /\ page = "final"
    /\ session_state.start_score = 500
    /\ session_state.responses = <<550, 500>>

\* C9 as stated: compute_level(50, [55, 50]) returns (3, "Moderately Moved").
FiftyFiveFiftyIsLevelThree ==
    FiftyFiveFifty => score = <<3, "Moderately Moved">>

\* C9 as amended: compute_level(50, [55, 50]) has an average delta of 2.5
\* (25 tenths) and returns (4, "Steady Supporter").
FiftyFiveFiftyIsLevelFour ==
    FiftyFiveFifty =>
        /\ TotalDelta(500, session_state.responses)
              = 25 * Len(session_state.responses)
        /\ score = <<4, "Steady Supporter">>

\* C10: after a successful begin the exposures number
\* min(usable items, NUM_EXPOSURES), never more than NUM_EXPOSURES, and are
\* picks of distinct positions of the usable items.
SampleWithinTarget ==
    Phase \in {"survey", "done"} =>
        LET e == session_state.exposures
        IN  /\ Len(e) = (IF Len(live) <= NUM_EXPOSURES THEN Len(live)
                         ELSE NUM_EXPOSURES)
            /\ Len(e) <= NUM_EXPOSURES
            /\ \E p \in [1..Len(e) -> 1..Len(live)] :
                  /\ \A a, b \in 1..Len(e) : a # b => p[a] # p[b]
                  /\ \A j \in 1..Len(e) : e[j] = live[p[j]]

\* C10 witness: the provider had more usable items than the target.
SampleCapped ==
    /\ Phase = "survey"
    /\ Len(live) > NUM_EXPOSURES
    /\ Len(session_state.exposures) = NUM_EXPOSURES

\* C11: the survey page starts the slider of story i from the starting score
\* when i = 0 and from the rating of story i-1 when i > 0, and a press of
\* Next records the slider's value; so a Next on an untouched slider records
\* that default.
SliderCarriesForward ==
    [][/\ (page' = "survey" /\ Idx' \notin DOMAIN sliders) =>
              sliders'[Idx'] = (IF Idx' = 0 THEN StartScore'
                                ELSE Responses'[Idx'])
       /\ NextPressed => Responses'[Len(Responses')] = sliders[Idx]]_vars

\* C11 witness: the second story's slider stands at the first story's
\* rating, which is not the starting score.
SecondSliderAtFirstRating ==
    /\ page = "survey"
    /\ Idx = 1
    /\ sliders[1] = Responses[1]
    /\ Responses[1] # StartScore

\* C12: when the final page assembles the payload, exposures and responses
\* have the same length and the payload has one row per exposure index i,
\* with the session id, the starting score, i, the exposure's headline and
\* summary, and the rating given while exposure i was on display.
PayloadRowPerExposure ==
    page = "final" =>
        /\ Len(Exposures) = Len(Responses)
        /\ Len(payload) = Len(Exposures)
        /\ \A k \in 1..Len(payload) :
              /\ payload[k].user_id = session_state.user_id
              /\ payload[k].initial_score = StartScore
              /\ payload[k].snippet_i = k - 1
              /\ payload[k].headline = Exposures[k].headline
              /\ payload[k].summary = Exposures[k].summary
              /\ payload[k].rating = Responses[k]
              /\ payload[k].rating = sliders[k - 1]

\* C12 witness: a payload of two rows with different ratings.
TwoRowPayload ==
    /\ page = "final"
    /\ Len(payload) = 2
    /\ payload[1].rating # payload[2].rating

FinalPageRun == page' = "final" /\ cache' = cache

\* C14: in phase done the final page is rendered down to the download of the
\* session's rows whatever the insert did; a run of the page makes one
\* insert, reports "saved" exactly when it added the rows and a failure
\* otherwise, leaving the store as it was; and the run leaves the starting
\* score, the exposures and the responses unchanged.
ExportSurvivesSave ==
    /\ [](Phase = "done" =>
             /\ page = "final"
             /\ save_status \in {"saved", "failed", "exception"}
             /\ Len(payload) = Len(Exposures)
             /\ \A k \in 1..Len(payload) :
                   /\ payload[k].rating = Responses[k]
                   /\ payload[k].headline = Exposures[k].headline)
    /\ [][FinalPageRun =>
             /\ (save_status' = "saved" => store' = Append(store, payload'))
             /\ (save_status' # "saved" => store' = store)
             /\ (Phase = "done" =>
                    /\ StartScore' = StartScore
                    /\ Exposures' = Exposures
                    /\ Responses' = Responses)]_vars

\* C14 witness: the insert raised, nothing was stored, the rows are on offer.
ExportAfterException ==
    /\ page = "final"
    /\ save_status = "exception"
    /\ store = <<>>
    /\ payload # <<>>

HasUserId == "user_id" \in DOMAIN session_state

\* C15: the session id, once generated, is the same in every later state and
\* in every row of the store; and once the phase has left init, no step,
\* Next included, changes the starting score or the exposures.
SessionIdentityFixed ==
    /\ [][/\ HasUserId =>
               HasUserId' /\ session_state'.user_id = session_state.user_id
          /\ Phase \in {"survey", "done"} =>
               StartScore' = StartScore /\ Exposures' = Exposures]_vars
    /\ [](\A b \in 1..Len(store) : \A k \in 1..Len(store[b]) :
             store[b][k].user_id = session_state.user_id)

\* C15 witness: Next has been pressed twice and two batches of rows stored.
StoredAfterTwoNexts ==
    /\ Phase = "done"
    /\ Len(Responses) = 2
    /\ Len(store) = 2

\* C16: without the provider credential nothing of the session comes to be:
\* no session id, no session state, and no page with Begin or Next.
NoKeyNoSession ==
    ~NEWSAPI_KEY =>
        /\ ~HasUserId
        /\ ~HasState
        /\ page \in {"none", "halted"}

\* A press of Begin: the init page gives way to the survey page or to an
\* exception.
BeginPressed == page = "init" /\ page' # "init"

\* C17 as stated: every begin makes exactly one outbound fetch call.
BeginFetchesOnce ==
    [][BeginPressed => fetch_calls' = 1]_vars

\* C17 as amended: a begin makes one outbound fetch call when the cache holds
\* no fresh entry for the topic and none when it does; never more than one.
BeginFetchesUnlessCached ==
    [][BeginPressed =>
          fetch_calls' = (IF cache.valid THEN 0 ELSE 1)]_vars

\* C17 witness: a begin was served from the cache, without a request.
BegunFromCache ==
    /\ Phase = "survey"
    /\ fetch_calls = 0
    /\ page = "survey"

\* C18: in phase done there is at least one response, so the final page's
\* last response and its division by the number of responses are defined
\* and the page is rendered.
DoneHasResponses ==
    Phase = "done" =>
        /\ Len(Responses) >= 1
        /\ ~final_raises(session_state)
        /\ page = "final"

\* C18 witness: a survey of one story is done.
OneStoryDone == Phase = "done" /\ Len(Responses) = 1 /\ Len(Exposures) = 1

====
